---------------------------- MODULE Spec2Model ----------------------------
(***************************************************************************)
(* The hybrid name-resolution pipeline of the repository: text cleaning,   *)
(* candidate extraction, normalisation and variant generation, fuzzy       *)
(* scoring, embedding fallback, disambiguation and the orchestration of    *)
(* match_users.                                                            *)
(*                                                                         *)
(* Texts are strings; Python's string operations are modelled character by *)
(* character.  Scores are integers in thousandths of a point (70.0 is      *)
(* 70000), cosine similarities are integers in units of 1e-5 (0.75 is      *)
(* 75000), so that cosine * 100 is the same integer read as a score.       *)
(***************************************************************************)
EXTENDS Integers, Sequences, FiniteSets, TLC

(***************************************************************************)
(* Python string primitives                                                *)
(***************************************************************************)
Max(a, b) == IF a >= b THEN a ELSE b

Min(a, b) == IF a <= b THEN a ELSE b

\* s[i] for a 1-based index, "" outside the string
Ch(s, i) == IF i >= 1 /\ i <= Len(s) THEN SubSeq(s, i, i) ELSE ""

\* s[a:b] with Python's 0-based, clamped bounds
PySlice(s, a, b) ==
    LET lo == Max(a, 0)
        hi == Min(b, Len(s))
    IN  IF lo >= hi THEN "" ELSE SubSeq(s, lo + 1, hi)

LowerLetters == "abcdefghijklmnopqrstuvwxyz"

UpperLetters == "ABCDEFGHIJKLMNOPQRSTUVWXYZ"

Digits == "0123456789"

\* code-point order of the characters that occur in ids
OrdChars == "0123456789ABCDEFGHIJKLMNOPQRSTUVWXYZ_abcdefghijklmnopqrstuvwxyz"

InStr(c, str) == Len(c) = 1 /\ \E i \in 1..Len(str) : SubSeq(str, i, i) = c

IndexIn(c, str) == CHOOSE i \in 1..Len(str) : SubSeq(str, i, i) = c

\* the characters of a string, as a set
CharSet(str) == {SubSeq(str, i, i) : i \in 1..Len(str)}

LowerSet == CharSet(LowerLetters)

UpperSet == CharSet(UpperLetters)

DigitSet == CharSet(Digits)

IsLower(c) == c \in LowerSet

IsUpper(c) == c \in UpperSet

IsDigit(c) == c \in DigitSet

IsAlpha(c) == IsLower(c) \/ IsUpper(c)

\* \w of the re module
IsWordChar(c) == IsAlpha(c) \/ IsDigit(c) \/ c = "_"

\* \s of the re module
IsSpace(c) == c = " "

\* \b between s[i-1] and s[i] (1-based i in 1..Len(s)+1)
WordBoundary(s, i) == IsWordChar(Ch(s, i - 1)) # IsWordChar(Ch(s, i))

ToLower == [c \in UpperSet |-> Ch(LowerLetters, IndexIn(c, UpperLetters))]

ToUpper == [c \in LowerSet |-> Ch(UpperLetters, IndexIn(c, LowerLetters))]

LowerChar(c) == IF IsUpper(c) THEN ToLower[c] ELSE c

UpperChar(c) == IF IsLower(c) THEN ToUpper[c] ELSE c

RECURSIVE LowerFrom(_, _)
LowerFrom(s, i) ==
    IF i > Len(s) THEN "" ELSE LowerChar(Ch(s, i)) \o LowerFrom(s, i + 1)

\* str.lower()
Lower(s) == LowerFrom(s, 1)

\* whether lit occurs in s at 1-based position i
StartsAt(s, i, lit) ==
    /\ i >= 1
    /\ i + Len(lit) - 1 <= Len(s)
    /\ SubSeq(s, i, i + Len(lit) - 1) = lit

RECURSIVE FindFrom(_, _, _)
FindFrom(s, sub, i) ==
    IF i + Len(sub) - 1 > Len(s) THEN -1
    ELSE IF StartsAt(s, i, sub) THEN i - 1
    ELSE FindFrom(s, sub, i + 1)

\* str.find(sub): the 0-based index of the first occurrence, -1 if none
Find(s, sub) == FindFrom(s, sub, 1)

\* sub in s
Contains(s, sub) == Find(s, sub) >= 0

RECURSIVE LStrip(_)
LStrip(s) == IF Len(s) > 0 /\ IsSpace(Ch(s, 1)) THEN LStrip(Tail(s)) ELSE s

RECURSIVE RStrip(_)
RStrip(s) ==
    IF Len(s) > 0 /\ IsSpace(Ch(s, Len(s)))
    THEN RStrip(SubSeq(s, 1, Len(s) - 1)) ELSE s

\* str.strip()
Strip(s) == LStrip(RStrip(s))

\* the number of characters of the run of class-members starting at i
RECURSIVE SpaceRun(_, _)
SpaceRun(s, i) == IF IsSpace(Ch(s, i)) THEN 1 + SpaceRun(s, i + 1) ELSE 0

RECURSIVE SplitFrom(_, _, _)
SplitFrom(s, i, cur) ==
    IF i > Len(s) THEN (IF cur = "" THEN <<>> ELSE <<cur>>)
    ELSE IF IsSpace(Ch(s, i))
         THEN (IF cur = "" THEN <<>> ELSE <<cur>>) \o SplitFrom(s, i + 1, "")
         ELSE SplitFrom(s, i + 1, cur \o Ch(s, i))

\* str.split(): the whitespace-separated tokens
Split(s) == SplitFrom(s, 1, "")

RECURSIVE Join(_)
\* ' '.join(tokens)
Join(tokens) ==
    IF Len(tokens) = 0 THEN ""
    ELSE IF Len(tokens) = 1 THEN tokens[1]
    ELSE tokens[1] \o " " \o Join(Tail(tokens))

RECURSIVE ReplaceFrom(_, _, _, _)
ReplaceFrom(s, old, new, i) ==
    IF i > Len(s) THEN ""
    ELSE IF StartsAt(s, i, old) THEN new \o ReplaceFrom(s, old, new, i + Len(old))
    ELSE Ch(s, i) \o ReplaceFrom(s, old, new, i + 1)

\* str.replace(old, new) for a non-empty old
Replace(s, old, new) == ReplaceFrom(s, old, new, 1)

RECURSIVE StrLess(_, _)
\* a < b on strings (code-point order)
StrLess(a, b) ==
    IF Len(b) = 0 THEN FALSE
    ELSE IF Len(a) = 0 THEN TRUE
    ELSE LET x == IndexIn(Ch(a, 1), OrdChars)
             y == IndexIn(Ch(b, 1), OrdChars)
         IN  IF x # y THEN x < y ELSE StrLess(Tail(a), Tail(b))

\* re.search(r'[a-z]', text, re.IGNORECASE)
HasAlpha(s) == \E i \in 1..Len(s) : IsAlpha(Ch(s, i))

Range(seq) == {seq[i] : i \in 1..Len(seq)}

(***************************************************************************)
(* TextCleaner                                                             *)
(***************************************************************************)
\* the six digit look-alike substitutions of soft_clean, in source order
LookalikeHit(s, i, rule) ==
    CASE rule = 1 -> Ch(s, i) = "0" /\ ~IsWordChar(Ch(s, i - 1)) /\ IsLower(Ch(s, i + 1))
      [] rule = 2 -> Ch(s, i) = "0" /\ IsLower(Ch(s, i - 1)) /\ ~IsWordChar(Ch(s, i + 1))
      [] rule = 3 -> Ch(s, i) = "1" /\ ~IsWordChar(Ch(s, i - 1)) /\ IsLower(Ch(s, i + 1))
      [] rule = 4 -> Ch(s, i) = "1" /\ IsLower(Ch(s, i - 1)) /\ ~IsWordChar(Ch(s, i + 1))
      [] rule = 5 -> Ch(s, i) = "0" /\ ~IsWordChar(Ch(s, i - 1)) /\ ~IsWordChar(Ch(s, i + 1))
      [] rule = 6 -> Ch(s, i) = "1" /\ ~IsWordChar(Ch(s, i - 1)) /\ ~IsWordChar(Ch(s, i + 1))

RECURSIVE LookalikePass(_, _, _)
LookalikePass(s, rule, i) ==
    IF i > Len(s) THEN ""
    ELSE (IF LookalikeHit(s, i, rule)
          THEN (IF rule \in {1, 2, 5} THEN "o" ELSE "l")
          ELSE Ch(s, i)) \o LookalikePass(s, rule, i + 1)

RECURSIVE ReplaceLookalikes(_, _)
ReplaceLookalikes(s, rule) ==
    IF rule > 6 THEN s ELSE ReplaceLookalikes(LookalikePass(s, rule, 1), rule + 1)

\* the length of the run of [\d\s\.] starting at i
RECURSIVE AccRun(_, _)
AccRun(s, i) ==
    IF IsDigit(Ch(s, i)) \/ IsSpace(Ch(s, i)) \/ Ch(s, i) = "."
    THEN 1 + AccRun(s, i + 1) ELSE 0

RECURSIVE RemoveAcc(_, _)
\* ACC_PATTERN.sub('', text)
RemoveAcc(s, i) ==
    IF i > Len(s) THEN ""
    ELSE IF StartsAt(s, i, "acc//") /\ AccRun(s, i + 5) >= 1
         THEN RemoveAcc(s, i + 5 + AccRun(s, i + 5))
         ELSE Ch(s, i) \o RemoveAcc(s, i + 1)

RECURSIVE ProtectRef(_, _)
\* re.sub(r'\bref\s*:', placeholder, text) followed, after the symbol pass,
\* by the restoration of the placeholder to 'ref:'
ProtectRef(s, i) ==
    IF i > Len(s) THEN ""
    ELSE IF /\ StartsAt(s, i, "ref")
            /\ WordBoundary(s, i)
            /\ Ch(s, i + 3 + SpaceRun(s, i + 3)) = ":"
         THEN " ref: " \o ProtectRef(s, i + 4 + SpaceRun(s, i + 3))
         ELSE Ch(s, i) \o ProtectRef(s, i + 1)

RECURSIVE RemoveSymbols(_, _)
\* re.sub(r'[^\w\s:]', ' ', text)
RemoveSymbols(s, i) ==
    IF i > Len(s) THEN ""
    ELSE (IF IsWordChar(Ch(s, i)) \/ IsSpace(Ch(s, i)) \/ Ch(s, i) = ":"
          THEN Ch(s, i) ELSE " ") \o RemoveSymbols(s, i + 1)

RECURSIVE CollapseFrom(_, _)
CollapseFrom(s, i) ==
    IF i > Len(s) THEN ""
    ELSE IF IsSpace(Ch(s, i)) THEN " " \o CollapseFrom(s, i + SpaceRun(s, i))
    ELSE Ch(s, i) \o CollapseFrom(s, i + 1)

\* re.sub(r'\s+', ' ', text).strip()
CollapseSpaces(s) == Strip(CollapseFrom(s, 1))

Truncate(s, max_length) ==
    IF max_length > 0 /\ Len(s) > max_length THEN SubSeq(s, 1, max_length) ELSE s

soft_clean(text, max_length) ==
    IF text = "" THEN ""
    ELSE LET lowered   == Lower(text)
             replaced  == ReplaceLookalikes(lowered, 1)
             noacc     == RemoveAcc(replaced, 1)
             protected == ProtectRef(noacc, 1)
             nosym     == RemoveSymbols(protected, 1)
         IN  Truncate(CollapseSpaces(nosym), max_length)

\* the alternatives of BOILERPLATE_PATTERN, in the order the regex tries them
BoilerplateAlternatives ==
    << "from", "for", "deel", "payment", "transfer", "received", "request",
       "credit", "debit", "to deel", "cntr", "wise", "test" >>

\* the length of the first alternative that matches at i between two \b, 0 if none
BoilerplateMatch(s, i) ==
    LET hits == {k \in 1..Len(BoilerplateAlternatives) :
                    /\ StartsAt(s, i, BoilerplateAlternatives[k])
                    /\ WordBoundary(s, i)
                    /\ WordBoundary(s, i + Len(BoilerplateAlternatives[k]))}
    IN  IF hits = {} THEN 0
        ELSE Len(BoilerplateAlternatives[CHOOSE k \in hits : \A j \in hits : k <= j])

RECURSIVE RemoveBoilerplate(_, _)
\* BOILERPLATE_PATTERN.sub(' ', text)
RemoveBoilerplate(s, i) ==
    IF i > Len(s) THEN ""
    ELSE IF BoilerplateMatch(s, i) > 0
         THEN " " \o RemoveBoilerplate(s, i + BoilerplateMatch(s, i))
         ELSE Ch(s, i) \o RemoveBoilerplate(s, i + 1)

hard_clean(text, max_length) ==
    IF text = "" THEN ""
    ELSE CollapseSpaces(RemoveBoilerplate(soft_clean(text, max_length), 1))

(***************************************************************************)
(* Sorting as list.sort(key=..., reverse=True) does it: descending by key, *)
(* elements of equal key in their original order.  Less(a, b) is           *)
(* key(a) < key(b).                                                        *)
(***************************************************************************)
SortDescBy(seq, Less(_, _)) ==
    LET items == seq \o <<>>
        n == Len(items)
        rank == [i \in 1..n |->
                   1 + Cardinality({j \in 1..n : Less(items[i], items[j])})
                     + Cardinality({j \in 1..(i - 1) :
                                      ~Less(items[j], items[i]) /\ ~Less(items[i], items[j])})]
                \o <<>>
    IN  [k \in 1..n |-> items[CHOOSE i \in 1..n : rank[i] = k]] \o <<>>

(***************************************************************************)
(* CandidateExtractor                                                      *)
(***************************************************************************)
BOILERPLATE_WORDS ==
    { "from", "for", "deel", "payment", "transfer", "received",
      "request", "credit", "debit", "to", "cntr", "wise", "test" }

Candidate(text, anchor, start_pos, end_pos, priority) ==
    [text |-> text, anchor |-> anchor, start_pos |-> start_pos,
     end_pos |-> end_pos, priority |-> priority]

_is_valid_candidate(text) ==
    LET words == Split(Lower(text))
    IN  /\ ~(text = "" \/ Len(Strip(text)) < 2)
        /\ ~(\A i \in 1..Len(words) : words[i] \in BOILERPLATE_WORDS)
        /\ ~(Len(words) < 1 \/ Len(words) > 6)
        /\ HasAlpha(text)

\* where (?:\s+(?:w1|w2|...)\b) matches at i: the position after it, 0 if it does not
WordTerminator(s, i, words) ==
    LET run == SpaceRun(s, i)
        hits == {w \in words : /\ StartsAt(s, i + run, w)
                               /\ WordBoundary(s, i + run + Len(w))}
    IN  IF run >= 1 /\ hits # {}
        THEN i + run + Len(CHOOSE w \in hits : TRUE)
        ELSE 0

\* the end of the match whose group ends before i: (?:\s+words\b|,|$)
GroupTerminator(s, i, words) ==
    IF WordTerminator(s, i, words) > 0 THEN WordTerminator(s, i, words)
    ELSE IF Ch(s, i) = "," THEN i + 1
    ELSE IF i = Len(s) + 1 THEN i
    ELSE 0

RECURSIVE LazyGroupEnd(_, _, _)
\* ([^,]+?) starting at g: the least e > g where the terminator matches
LazyGroupEnd(s, e, words) ==
    IF GroupTerminator(s, e, words) > 0 THEN e
    ELSE LazyGroupEnd(s, e + 1, words)

RECURSIVE AfterFromScan(_, _, _)
\* re.finditer(r'\bfrom\s+([^,]+?)(?:\s+for\b|,|$)', text, re.IGNORECASE)
AfterFromScan(text, s, p) ==
    LET g == p + 4 + SpaceRun(s, p + 4)
        e == LazyGroupEnd(s, g + 1, {"for"})
        name_text == Strip(SubSeq(text, g, e - 1))
    IN  IF p > Len(s) THEN <<>>
        ELSE IF /\ StartsAt(s, p, "from") /\ WordBoundary(s, p)
                /\ SpaceRun(s, p + 4) >= 1
                /\ g <= Len(s) /\ Ch(s, g) # ","
             THEN (IF _is_valid_candidate(name_text)
                   THEN <<Candidate(name_text, "from", g - 1, e - 1, 3)>>
                   ELSE <<>>)
                  \o AfterFromScan(text, s, GroupTerminator(s, e, {"for"}))
             ELSE AfterFromScan(text, s, p + 1)

_extract_after_from(text) == AfterFromScan(text, Lower(text), 1)

RECURSIVE AfterRefScan(_, _, _)
\* re.finditer(r'\bref\s*:\s*([^,]+?)(?:\s+(?:cntr|for|and|cc)\b|,|$)', text, re.IGNORECASE)
AfterRefScan(text, s, p) ==
    LET colon == p + 3 + SpaceRun(s, p + 3)
        g == colon + 1 + SpaceRun(s, colon + 1)
        stops == {"cntr", "for", "and", "cc"}
        e == LazyGroupEnd(s, g + 1, stops)
        name_text == Strip(SubSeq(text, g, e - 1))
    IN  IF p > Len(s) THEN <<>>
        ELSE IF /\ StartsAt(s, p, "ref") /\ WordBoundary(s, p)
                /\ Ch(s, colon) = ":"
                /\ g <= Len(s) /\ Ch(s, g) # ","
             THEN (IF _is_valid_candidate(name_text)
                   THEN <<Candidate(name_text, "ref", g - 1, e - 1, 2)>>
                   ELSE <<>>)
                  \o AfterRefScan(text, s, GroupTerminator(s, e, stops))
             ELSE AfterRefScan(text, s, p + 1)

_extract_after_ref(text) == AfterRefScan(text, Lower(text), 1)

\* where \s+for\s+deel\b matches at i: the position after it, 0 if it does not
ForDeelAt(s, i) ==
    LET k1 == SpaceRun(s, i)
        k2 == SpaceRun(s, i + k1 + 3)
    IN  IF /\ k1 >= 1 /\ StartsAt(s, i + k1, "for")
           /\ k2 >= 1 /\ StartsAt(s, i + k1 + 3 + k2, "deel")
           /\ WordBoundary(s, i + k1 + 3 + k2 + 4)
        THEN i + k1 + 3 + k2 + 4
        ELSE 0

RECURSIVE BeforeForDeelScan(_, _, _)
\* re.finditer(r'(.+?)\s+for\s+deel\b', text, re.IGNORECASE)
BeforeForDeelScan(text, s, st) ==
    LET ends == {e \in (st + 1)..Len(s) : ForDeelAt(s, e) > 0}
        e == CHOOSE m \in ends : \A o \in ends : m <= o
        words == Split(Strip(SubSeq(text, st, e - 1)))
        name_words == IF Len(words) >= 4
                      THEN SubSeq(words, Len(words) - 3, Len(words)) ELSE words
        name_text == Join(name_words)
    IN  IF ends = {} THEN <<>>
        ELSE (IF Len(words) >= 2 /\ _is_valid_candidate(name_text)
              THEN <<Candidate(name_text, "for_deel", st - 1, e - 1, 1)>>
              ELSE <<>>)
             \o BeforeForDeelScan(text, s, ForDeelAt(s, e))

_extract_before_for_deel(text) == BeforeForDeelScan(text, Lower(text), 1)

\* the windows of one size, left to right
WindowsOfSize(words, window_size) ==
    LET starts == SelectSeq([i \in 1..Max(Len(words) - window_size + 1, 0) |-> i],
                     LAMBDA i :
                        LET window == SubSeq(words, i, i + window_size - 1)
                            alpha_count == Cardinality({k \in 1..window_size :
                                                          HasAlpha(window[k])})
                        IN  alpha_count >= 2 /\ _is_valid_candidate(Join(window)))
    IN  [k \in 1..Len(starts) |->
            Candidate(Join(SubSeq(words, starts[k], starts[k] + window_size - 1)),
                      "fallback", starts[k] - 1, starts[k] - 1 + window_size, 0)]

_fallback_windows(text) ==
    LET words == Split(text)
    IN  IF Len(words) < 2 THEN <<>>
        ELSE WindowsOfSize(words, 2) \o WindowsOfSize(words, 3) \o WindowsOfSize(words, 4)

PunctuationChars == {".", ",", ";", ":", "!", "?", "(", ")", "-", "[", "]", "{", "}", "\"", "'"}

RECURSIVE StripChars(_, _)
\* str.strip(chars)
StripChars(s, chars) ==
    IF Len(s) > 0 /\ Ch(s, 1) \in chars THEN StripChars(Tail(s), chars)
    ELSE IF Len(s) > 0 /\ Ch(s, Len(s)) \in chars
         THEN StripChars(SubSeq(s, 1, Len(s) - 1), chars)
    ELSE s

_post_filter_candidates(candidates) ==
    LET cleaned(c) == Strip(StripChars(c.text, PunctuationChars))
        kept == SelectSeq(candidates,
                    LAMBDA c : /\ cleaned(c) # ""
                               /\ ~(Len(Split(cleaned(c))) < 1 \/ Len(Split(cleaned(c))) > 6))
    IN  [k \in 1..Len(kept) |-> [kept[k] EXCEPT !.text = cleaned(kept[k])]]

\* CandidateKeyLess with the priorities compared the other way round
CandidateKeyLessReversed(a, b) ==
    \/ a.priority > b.priority
    \/ a.priority = b.priority /\ (0 - Len(a.text)) < (0 - Len(b.text))

\* key (priority, -len(text)) compared as tuples
CandidateKeyLess(a, b) ==
    \/ a.priority < b.priority
    \/ a.priority = b.priority /\ (0 - Len(a.text)) < (0 - Len(b.text))

RECURSIVE UniqueCandidates(_, _, _, _)
\* the de-duplication loop of extract_candidates
UniqueCandidates(candidates, i, seen_texts, max_candidates) ==
    IF i > Len(candidates) THEN <<>>
    ELSE LET text_normalized == Strip(Lower(candidates[i].text))
         IN  IF text_normalized \notin seen_texts /\ text_normalized # ""
             THEN <<candidates[i]>> \o
                  (IF Cardinality(seen_texts) + 1 >= max_candidates THEN <<>>
                   ELSE UniqueCandidates(candidates, i + 1,
                                         seen_texts \cup {text_normalized}, max_candidates))
             ELSE UniqueCandidates(candidates, i + 1, seen_texts, max_candidates)

\* extract_candidates that runs the fallback pass on every text
extract_candidates_fallback_always(soft_cleaned_text, max_candidates) ==
    LET pooled == _extract_after_from(soft_cleaned_text)
                  \o _extract_after_ref(soft_cleaned_text)
                  \o _extract_before_for_deel(soft_cleaned_text)
                  \o _fallback_windows(soft_cleaned_text)
        filtered == _post_filter_candidates(pooled)
        sorted == SortDescBy(filtered, CandidateKeyLess)
    IN  UniqueCandidates(sorted, 1, {}, max_candidates)

extract_candidates(soft_cleaned_text, max_candidates) ==
    LET anchored == _extract_after_from(soft_cleaned_text)
                    \o _extract_after_ref(soft_cleaned_text)
                    \o _extract_before_for_deel(soft_cleaned_text)
        pooled == IF anchored = <<>> THEN _fallback_windows(soft_cleaned_text)
                  ELSE anchored
        filtered == _post_filter_candidates(pooled)
        sorted == SortDescBy(filtered, CandidateKeyLess)
    IN  UniqueCandidates(sorted, 1, {}, max_candidates)

(***************************************************************************)
(* unidecode and the transliteration map                                   *)
(***************************************************************************)
\* the characters outside ASCII that occur in the texts of this model.
\* Strings here hold Latin-1 only, so two characters stand for Chinese
\* ones: "¤" for U+5317 and "¦" for U+4EB0
NonAsciiLetters == "éöñß¤¦"

\* unidecode of one character: ASCII is kept, an accented letter becomes
\* its ASCII spelling, a Chinese character its capitalised pinyin followed
\* by a space (unidecode of U+5317 U+4EB0 is "Bei Jing ")
UnidecodeChar(c) ==
    CASE c = "é" -> "e"
      [] c = "ö" -> "o"
      [] c = "ñ" -> "n"
      [] c = "ß" -> "ss"
      [] c = "¤" -> "Bei "
      [] c = "¦" -> "Jing "
      [] OTHER -> c

RECURSIVE Unidecode(_)
Unidecode(s) ==
    IF s = "" THEN "" ELSE UnidecodeChar(Ch(s, 1)) \o Unidecode(Tail(s))

\* ord(char) > 127 for some character of the text
has_non_latin_chars(text) ==
    \E i \in 1..Len(text) : InStr(Ch(text, i), NonAsciiLetters)

\* The keys of TRANSLITERATION_MAP are Chinese, Greek and Hebrew names; no
\* string over the alphabet of this model equals one of them, so both the
\* exact and the case-insensitive lookup miss and the result is None ("").
get_transliteration(name) == IF name = "" THEN "" ELSE ""

(***************************************************************************)
(* misspelling_map                                                         *)
(***************************************************************************)
\* the dictionary in insertion order
MISSPELLING_MAP ==
    << <<"talor", "taylor">>,
       <<"gonzal ez", "gonzalez">>,
       <<"rodri guez", "rodriguez">>,
       <<"leedsfor", "leeds for">>,
       <<"brookers", "brooks">>,
       <<"matthewbrooks", "matthew brooks">> >>

normalize_misspelling(text) ==
    LET text_lower == Strip(Lower(text))
        n == Len(MISSPELLING_MAP)
        exact == {i \in 1..n : MISSPELLING_MAP[i][1] = text_lower}
        partial == {i \in 1..n : Contains(text_lower, MISSPELLING_MAP[i][1])}
        first(S) == CHOOSE i \in S : \A j \in S : i <= j
    IN  IF exact # {} THEN MISSPELLING_MAP[first(exact)][2]
        ELSE IF partial # {}
             THEN Replace(text_lower, MISSPELLING_MAP[first(partial)][1],
                          MISSPELLING_MAP[first(partial)][2])
        ELSE text

(***************************************************************************)
(* CandidateNormalizer                                                     *)
(***************************************************************************)
normalize_candidate(candidate) ==
    IF candidate = "" THEN ""
    ELSE CollapseSpaces(Unidecode(Strip(Lower(candidate))))

\* str.capitalize()
Capitalize(s) ==
    IF s = "" THEN "" ELSE UpperChar(Ch(s, 1)) \o Lower(Tail(s))

\* the two parts of the first split position whose parts are both user
\* tokens, <<>> for None
_try_split_token(token, all_user_tokens) ==
    LET part1(p) == PySlice(token, 0, p)
        part2(p) == PySlice(token, p, Len(token))
        hit(p) ==
            \/ part1(p) \in all_user_tokens /\ part2(p) \in all_user_tokens
            \/ /\ Capitalize(part1(p)) \in all_user_tokens \/ part1(p) \in all_user_tokens
               /\ Capitalize(part2(p)) \in all_user_tokens \/ part2(p) \in all_user_tokens
        hits == {p \in 3..(Len(token) - 3) : hit(p)}
    IN  IF all_user_tokens = {} \/ hits = {} THEN <<>>
        ELSE LET p == CHOOSE q \in hits : \A r \in hits : q <= r
             IN  <<part1(p), part2(p)>>

RECURSIVE SplitGluedTokens(_, _)
SplitGluedTokens(tokens, all_user_tokens) ==
    IF tokens = <<>> THEN <<>>
    ELSE LET token == Head(tokens)
             split == IF Len(token) > 6 THEN _try_split_token(token, all_user_tokens)
                      ELSE <<>>
         IN  (IF split # <<>> THEN split ELSE <<token>>)
             \o SplitGluedTokens(Tail(tokens), all_user_tokens)

_split_glued_words(text, all_user_tokens) ==
    IF all_user_tokens = {} THEN text
    ELSE Join(SplitGluedTokens(Split(text), all_user_tokens))

RECURSIVE DropDigitTail(_)
\* re.sub(r'\d+$', '', token)
DropDigitTail(token) ==
    IF token # "" /\ IsDigit(Ch(token, Len(token)))
    THEN DropDigitTail(SubSeq(token, 1, Len(token) - 1)) ELSE token

\* the set `variants` built by generate_variants, before list() orders it
VariantSet(candidate, all_user_tokens) ==
    LET normalized0 == normalize_candidate(candidate)
        normalized == _split_glued_words(normalize_misspelling(normalized0),
                                         all_user_tokens)
        tokens == Split(normalized)
        reversed == IF Len(tokens) = 2 THEN {tokens[2] \o " " \o tokens[1]} ELSE {}
        filtered_tokens ==
            SelectSeq(tokens, LAMBDA t : Len(t) > 1 \/ Lower(t) \notin {"j", "k", "jr", "sr"})
        middles == IF Len(tokens) > 2 /\ Len(filtered_tokens) >= 2
                   THEN {Join(filtered_tokens)} ELSE {}
        tails == {Join([k \in 1..Len(tokens) |->
                          IF tokens[k] # tokens[i] THEN tokens[k]
                          ELSE DropDigitTail(tokens[i])]) :
                    i \in {j \in 1..Len(tokens) :
                             /\ DropDigitTail(tokens[j]) # ""
                             /\ DropDigitTail(tokens[j]) # tokens[j]}}
        transliterated == get_transliteration(candidate)
        translit_tokens == Split(transliterated)
        translit == IF has_non_latin_chars(candidate) /\ transliterated # ""
                    THEN {Lower(transliterated)} \cup
                         (IF Len(translit_tokens) = 2
                          THEN {translit_tokens[2] \o " " \o translit_tokens[1]}
                          ELSE {})
                    ELSE {}
    IN  IF normalized0 = "" THEN {}
        ELSE IF tokens = <<>> THEN {normalized}
        ELSE {normalized} \cup reversed \cup middles \cup tails \cup translit

RECURSIVE SetOrders(_)
\* the orders in which a set can be iterated
SetOrders(S) ==
    IF S = {} THEN {<<>>}
    ELSE UNION {{<<x>> \o order : order \in SetOrders(S \ {x})} : x \in S}

\* generate_variants without the slice
generate_variants_unsliced(order, max_variants) == order

\* list(variants)[:max_variants] when the set iterates in the given order
generate_variants(order, max_variants) ==
    SubSeq(order, 1, Min(Len(order), max_variants))

(***************************************************************************)
(* Config.  Scores are kept in thousandths of a point (70.0 is 70000) and  *)
(* cosine similarities in units of 1e-5 (0.75 is 75000), so that           *)
(* cosine_sim * 100.0 is the same integer read as a score.                 *)
(***************************************************************************)
FUZZY_ACCEPT == 70

\* 0.75, in units of 1e-5
EMB_ACCEPT == 75000

ANCHOR_BONUS == 5

CC_PENALTY == -8

ERR_PENALTY == -5

FIRST_NAME_OVERLAP == 5

LAST_NAME_OVERLAP == 5

INITIALS_MATCH == 3

TOP_K_RESULTS == <<3, 5>>

MAX_CANDIDATES == 5

MAX_VARIANTS_PER_CANDIDATE == 8

MAX_DESCRIPTION_LENGTH == 1000

EMBEDDING_TIMEOUT_MS == 200

\* get_top_k returning the minimum of the configured pair
get_top_k_min == TOP_K_RESULTS[1]

get_top_k == TOP_K_RESULTS[2]

\* n points as a score
Points(n) == n * 1000

\* Clamp with the cap and the floor left out
ClampOff(score) == score

\* min(100.0, max(0.0, score))
Clamp(score) == Min(Points(100), Max(0, score))

(***************************************************************************)
(* UserPreprocessor (the path that computes the records, no cache)         *)
(***************************************************************************)
RECURSIVE FirstChars(_)
\* ''.join(t[0] for t in tokens if t)
FirstChars(tokens) ==
    IF tokens = <<>> THEN "" ELSE Ch(Head(tokens), 1) \o FirstChars(Tail(tokens))

RECURSIVE Upper(_)
\* str.upper()
Upper(s) == IF s = "" THEN "" ELSE UpperChar(Ch(s, 1)) \o Upper(Tail(s))

\* first character of each token, upper-cased
generate_initials(tokens) == IF tokens = <<>> THEN "" ELSE Upper(FirstChars(tokens))

\* the record of one row, or <<>> when the row is skipped; the embedding is
\* the vector the model computes for name_strip_accents, kept here as the
\* text it encodes
UserRecord(row) ==
    LET name_raw == Strip(row.name)
        name_lc == Strip(Lower(name_raw))
        name_strip_accents == IF name_lc = "" THEN "" ELSE Unidecode(name_lc)
        tokens == Split(name_strip_accents)
    IN  IF row.id = "" \/ name_raw = "" \/ Lower(name_raw) \in {"nan", "none", ""}
        THEN <<>>
        ELSE IF name_strip_accents = "" \/ tokens = <<>> THEN <<>>
        ELSE << [id |-> row.id, name_raw |-> name_raw,
                 name_strip_accents |-> name_strip_accents,
                 tokens |-> tokens, initials |-> generate_initials(tokens),
                 embedding |-> [encoded |-> name_strip_accents]] >>

RECURSIVE preprocess_users(_)
preprocess_users(users_df) ==
    IF users_df = <<>> THEN <<>>
    ELSE UserRecord(Head(users_df)) \o preprocess_users(Tail(users_df))

(***************************************************************************)
(* FuzzyMatcher.  rapidfuzz is a library: its value on a pair of strings   *)
(* is read from the table fz, except where the definitions of its ratios   *)
(* force the maximum of 100.                                               *)
(***************************************************************************)
Count(seq, x) == Cardinality({i \in 1..Len(seq) : seq[i] = x})

\* one of ratio, token_sort_ratio, token_set_ratio, partial_ratio is 100:
\* equal strings, equal sorted tokens, one token set inside the other,
\* the shorter string a substring of the longer
FuzzIsExact(candidate, user_name) ==
    LET a == Split(candidate)
        b == Split(user_name)
    IN  \/ candidate = user_name
        \/ /\ Len(a) = Len(b)
           /\ \A t \in Range(a) \cup Range(b) : Count(a, t) = Count(b, t)
        \/ /\ Range(a) \cap Range(b) # {}
           /\ Range(a) \subseteq Range(b) \/ Range(b) \subseteq Range(a)
        \/ IF Len(candidate) <= Len(user_name) THEN Contains(user_name, candidate)
           ELSE Contains(candidate, user_name)

_compute_base_score(candidate, user_name, fz) ==
    IF FuzzIsExact(candidate, user_name) THEN Points(100)
    ELSE fz[<<candidate, user_name>>]

\* lines 163-171: the cc penalty of the fuzzy stage, 0 when not charged
FuzzyCcCharge(candidate, description) ==
    LET description_lower == Lower(description)
        candidate_lower == Lower(candidate)
        cc_pos == Find(description_lower, "cc")
        candidate_pos == Find(description_lower, candidate_lower)
    IN  IF /\ Contains(description_lower, "cc")
           /\ candidate_pos > cc_pos
           /\ candidate_pos < cc_pos + 100
        THEN Points(CC_PENALTY) ELSE 0

_apply_bonuses_penalties(base_score, candidate, user, description) ==
    LET candidate_tokens == Split(Lower(candidate))
        user_tokens == user.tokens
        n == Len(candidate_tokens)
        m == Len(user_tokens)
        first == IF n > 0 /\ m > 0 /\ candidate_tokens[1] = Lower(user_tokens[1])
                 THEN Points(FIRST_NAME_OVERLAP) ELSE 0
        last == IF n > 1 /\ m > 1 /\ candidate_tokens[n] = Lower(user_tokens[m])
                THEN Points(LAST_NAME_OVERLAP) ELSE 0
        user_initials == Lower(user.initials)
        initials == IF user_initials # ""
                       /\ Lower(FirstChars(candidate_tokens)) = user_initials
                    THEN Points(INITIALS_MATCH) ELSE 0
        description_lower == Lower(description)
        err == IF Contains(description_lower, "err#") \/ Contains(description_lower, "err #")
               THEN Points(ERR_PENALTY) ELSE 0
    IN  IF user_tokens = <<>> THEN base_score
        ELSE base_score + first + last + initials
             + FuzzyCcCharge(candidate, description) + err

\* One match dictionary.  cosine_sim is 0 on a fuzzy match and base_score 0
\* on an embedding match; cc_charged is the sum of the cc penalties charged
\* to the match so far.
Match(user, score, candidate, base_score, cosine_sim, cc_charged) ==
    [user_id |-> user.id, user_name |-> user.name_raw, score |-> score,
     candidate |-> candidate, base_score |-> base_score, cosine_sim |-> cosine_sim,
     anchor_bonus_applied |-> FALSE, cc_penalty_applied |-> FALSE,
     cc_charged |-> cc_charged]

ScoreLess(a, b) == a.score < b.score

\* the (variant, user) pairs the double loop of fuzzy_match scores
FuzzyPairs(candidate_variants, preprocessed_users) ==
    LET nu == Len(preprocessed_users)
        all == [k \in 1..(Len(candidate_variants) * nu) |->
                  <<candidate_variants[((k - 1) \div nu) + 1],
                    preprocessed_users[((k - 1) % nu) + 1]>>]
    IN  SelectSeq(all, LAMBDA p : p[1] # "" /\ p[2].name_strip_accents # "")

fuzzy_match(candidate_variants, preprocessed_users, threshold, description, fz) ==
    LET pairs == FuzzyPairs(candidate_variants, preprocessed_users)
        scored == [k \in 1..Len(pairs) |->
                     LET candidate_variant == pairs[k][1]
                         user == pairs[k][2]
                         base_score == _compute_base_score(candidate_variant,
                                                           user.name_strip_accents, fz)
                         final_score == Clamp(_apply_bonuses_penalties(
                                                 base_score, candidate_variant,
                                                 user, description))
                     IN  Match(user, final_score, candidate_variant, base_score, 0,
                               IF user.tokens = <<>> THEN 0
                               ELSE FuzzyCcCharge(candidate_variant, description))]
                  \o <<>>
        matches == SelectSeq(scored, LAMBDA m : m.score >= threshold)
    IN  SortDescBy(matches, ScoreLess)

(***************************************************************************)
(* EmbeddingMatcher.  The sentence-transformer is a library: the cosine    *)
(* similarity of a text and a user name is read from the table em.  What   *)
(* the clock and the encoder do is the argument env:                       *)
(*   env.timeout_before  the budget is already spent before encode         *)
(*   env.encode_fails    encode, or the comparison with the user after     *)
(*                       the scanned ones, raises                          *)
(*   env.scanned         the number of users compared before the budget    *)
(*                       check inside the loop breaks it, or before the    *)
(*                       exception                                         *)
(***************************************************************************)
\* embedding_match without its except clause: what was collected before the
\* exception is returned
embedding_match_no_except(candidate_variants, preprocessed_users, threshold, em, env) ==
    IF candidate_variants = <<>> THEN <<>>
    ELSE LET best_candidate == candidate_variants[1]
             scanned == SubSeq(preprocessed_users, 1,
                               Min(env.scanned, Len(preprocessed_users)))
             cosine(user) == em[<<best_candidate, user.embedding.encoded>>]
             accepted == SelectSeq(scanned, LAMBDA user : cosine(user) >= threshold)
             matches == [k \in 1..Len(accepted) |->
                           Match(accepted[k], cosine(accepted[k]), best_candidate,
                                 0, cosine(accepted[k]), 0)]
         IN  IF env.timeout_before THEN <<>>
             ELSE SortDescBy(matches, ScoreLess)

\* embedding_match whose loop never looks at the clock
embedding_match_no_break(candidate_variants, preprocessed_users, threshold, em, env) ==
    IF candidate_variants = <<>> THEN <<>>
    ELSE LET best_candidate == candidate_variants[1]
             cosine(user) == em[<<best_candidate, user.embedding.encoded>>]
             accepted == SelectSeq(preprocessed_users,
                                   LAMBDA user : cosine(user) >= threshold)
             matches == [k \in 1..Len(accepted) |->
                           Match(accepted[k], cosine(accepted[k]), best_candidate,
                                 0, cosine(accepted[k]), 0)]
         IN  IF env.timeout_before \/ env.encode_fails THEN <<>>
             ELSE SortDescBy(matches, ScoreLess)

embedding_match(candidate_variants, preprocessed_users, threshold, em, env) ==
    IF candidate_variants = <<>> THEN <<>>
    ELSE LET best_candidate == candidate_variants[1]
             transliterated == IF has_non_latin_chars(best_candidate)
                               THEN get_transliteration(best_candidate) ELSE ""
             scanned == SubSeq(preprocessed_users, 1,
                               Min(env.scanned, Len(preprocessed_users)))
             cosine(user) == em[<<best_candidate, user.embedding.encoded>>]
             accepted == SelectSeq(scanned, LAMBDA user : cosine(user) >= threshold)
             matches == [k \in 1..Len(accepted) |->
                           Match(accepted[k], cosine(accepted[k]), best_candidate,
                                 0, cosine(accepted[k]), 0)]
         IN  IF env.timeout_before \/ env.encode_fails THEN <<>>
             ELSE SortDescBy(matches, ScoreLess)

(***************************************************************************)
(* Disambiguator                                                           *)
(***************************************************************************)
\* candidate_lookup.get(text): the last candidate with that lower-cased
\* text, <<>> for None
CandidateLookup(candidates, text) ==
    LET hits == {i \in 1..Len(candidates) : Lower(candidates[i].text) = text}
    IN  IF hits = {} THEN <<>>
        ELSE <<candidates[CHOOSE i \in hits : \A j \in hits : j <= i]>>

AnchorPriority(anchor) ==
    CASE anchor = "from" -> 3
      [] anchor = "ref" -> 2
      [] anchor = "for_deel" -> 1
      [] OTHER -> 0

\* max() returns the first candidate of the highest priority
_get_primary_anchor(candidates) ==
    IF candidates = <<>> THEN "fallback"
    ELSE LET n == Len(candidates)
             best == CHOOSE i \in 1..n :
                        /\ \A j \in 1..n : AnchorPriority(candidates[j].anchor)
                                             <= AnchorPriority(candidates[i].anchor)
                        /\ \A j \in 1..(i - 1) : AnchorPriority(candidates[j].anchor)
                                                   < AnchorPriority(candidates[i].anchor)
         IN  candidates[best].anchor

\* the starts (0-based) of the matches of \bcc\b
CcPositions(description_lower) ==
    {p \in 0..(Len(description_lower) - 2) :
        /\ StartsAt(description_lower, p + 1, "cc")
        /\ WordBoundary(description_lower, p + 1)
        /\ WordBoundary(description_lower, p + 3)}

_is_in_cc_region(candidate, description) ==
    LET description_lower == Lower(description)
        candidate_lower == Lower(candidate.text)
    IN  \E cc_pos \in CcPositions(description_lower) :
            Contains(PySlice(description_lower, cc_pos, cc_pos + 200), candidate_lower)

\* lines 47-60: the anchor bonus and the cc penalty of one match
AnchorAndCc(match, candidates, description) ==
    LET found == CandidateLookup(candidates, Lower(match.candidate))
        candidate == found[1]
        bonus == found # <<>> /\ candidate.anchor = _get_primary_anchor(candidates)
        penalty == found # <<>> /\ _is_in_cc_region(candidate, description)
    IN  [match EXCEPT
           !.score = @ + (IF bonus THEN Points(ANCHOR_BONUS) ELSE 0)
                       + (IF penalty THEN Points(CC_PENALTY) ELSE 0),
           !.anchor_bonus_applied = bonus,
           !.cc_penalty_applied = penalty,
           !.cc_charged = @ + (IF penalty THEN Points(CC_PENALTY) ELSE 0)]

TokenCount(match) == Len(Split(match.candidate))

\* the position, among the matches of its user, that the stable descending
\* sort by token count puts first
IsTopOfUser(matches, i) ==
    /\ \A j \in 1..Len(matches) :
          matches[j].user_id = matches[i].user_id
             => TokenCount(matches[j]) <= TokenCount(matches[i])
    /\ \A j \in 1..(i - 1) :
          matches[j].user_id = matches[i].user_id
             => TokenCount(matches[j]) < TokenCount(matches[i])

_prefer_compound_names(matches) ==
    LET others(i) == {j \in 1..Len(matches) :
                        /\ j # i
                        /\ matches[j].user_id = matches[i].user_id
                        /\ TokenCount(matches[j]) = 2
                        /\ matches[j].score >= Points(FUZZY_ACCEPT)}
    IN  [i \in 1..Len(matches) |->
           IF IsTopOfUser(matches, i) /\ TokenCount(matches[i]) >= 3
           THEN [matches[i] EXCEPT !.score = @ + Points(2) * Cardinality(others(i))]
           ELSE matches[i]]

\* ScoreIdLess without the user id
ScoreIdLessNoId(a, b) == a.score < b.score

\* the key (score, user_id) compared as tuples
ScoreIdLess(a, b) ==
    \/ a.score < b.score
    \/ a.score = b.score /\ StrLess(a.user_id, b.user_id)

disambiguate(matches, candidates, description) ==
    IF matches = <<>> THEN <<>>
    ELSE LET adjusted == [i \in 1..Len(matches) |->
                            AnchorAndCc(matches[i], candidates, description)] \o <<>>
             preferred == _prefer_compound_names(adjusted) \o <<>>
             capped == [i \in 1..Len(preferred) |->
                          [preferred[i] EXCEPT !.score = Clamp(@)]]
         IN  SortDescBy(capped, ScoreIdLess)

(***************************************************************************)
(* RequestLogger                                                           *)
(***************************************************************************)
\* the counters of a new logger
NewMetrics == [fuzzy_matches |-> 0, embedding_matches |-> 0, no_matches |-> 0, errors |-> 0]

\* the metrics after log_request(method=..., scores=...)
log_request(m, method, scores) ==
    LET counted == IF method = "fuzzy" THEN [m EXCEPT !.fuzzy_matches = @ + 1]
                   ELSE IF method = "embedding"
                        THEN [m EXCEPT !.embedding_matches = @ + 1]
                   ELSE m
    IN  IF scores = <<>> THEN [counted EXCEPT !.no_matches = @ + 1] ELSE counted

(***************************************************************************)
(* The transactions table, the rosters and the requests of the model       *)
(***************************************************************************)
Transactions ==
    << [id |-> "t1", description |-> "Transfer from Emma Brown for Deel"],
       [id |-> "t2", description |-> "12345 ### 999"],
       [id |-> "t3", description |-> ""],
       [id |-> "t4", description |-> "###"],
       [id |-> "t5", description |-> "cc John Smith payment from Maria Alvarez for Deel"],
       [id |-> "t6", description |-> "From Alice for Deel cc ref: Smythe"],
       [id |-> "t7", description |-> "cc from John Smith"],
       [id |-> "t8", description |-> "from John Smith"],
       [id |-> "t9", description |-> "cc ref: maria alvarez and from maria x9 alvarez"],
       [id |-> "t10", description |-> "account from John Smith"],
       [id |-> "t11", description |-> "to 12345"],
       [id |-> "t12", description |-> "from Jon"] >>

RosterEmma ==
    << [id |-> "a1", name |-> "Emma Brown"], [id |-> "z9", name |-> "Emma Brown Smith"] >>

RosterEmmaOnly == << [id |-> "a1", name |-> "Emma Brown"] >>

RosterPair ==
    << [id |-> "u1", name |-> "John Smith"], [id |-> "u2", name |-> "Maria Alvarez"] >>

RosterSmith == << [id |-> "u3", name |-> "Smith"] >>

RosterMaria == << [id |-> "u2", name |-> "Maria Alvarez"] >>

\* the (transaction id, users table) pairs a run is started with; "t404" is
\* not in the table
Requests ==
    { <<"t1", RosterEmma>>, <<"t1", RosterEmmaOnly>>, <<"t1", RosterSmith>>,
      <<"t2", RosterPair>>, <<"t3", RosterPair>>, <<"t4", RosterPair>>,
      <<"t5", RosterPair>>, <<"t6", RosterSmith>>,
      <<"t7", RosterPair>>, <<"t8", RosterPair>>,
      <<"t9", RosterMaria>>, <<"t10", RosterPair>>,
      <<"t11", RosterPair>>, <<"t12", RosterPair>>, <<"t404", RosterPair>> }

\* values rapidfuzz returns on pairs of strings none of its ratios scores 100
FuzzSamples == {50000, 80000}

\* cosine similarities the embedding model returns
EmbSamples == {60000, 75000, 81234, 100001}

\* the number of runs of match_users on the same request
MaxRuns == 2

(***************************************************************************)
(* match_users as a state machine: pc is the position in the function      *)
(***************************************************************************)
VARIABLES
    pc,                 \* the step of match_users that runs next
    transaction_id,     \* argument
    preprocessed_users, \* argument
    description,
    soft_cleaned,
    hard_cleaned,
    candidates,
    all_variants,
    fuzzy_matches,
    matches,
    method,
    top_score,
    result,             \* the returned dictionary
    metrics,            \* logger.metrics
    fuzz,               \* rapidfuzz: (variant, user name) |-> base score
    emb,                \* embedding model: (text, user name) |-> cosine
    setorder,           \* this process's iteration order of each variant set
    trace,              \* the steps this run has executed
    undisturbed,        \* no timeout and no encoder failure in this run
    runs,               \* the number of this run
    prev,               \* what the previous run on this request returned
    threads             \* the concurrent calls of log_request on one logger

vars == <<pc, transaction_id, preprocessed_users, description, soft_cleaned,
          hard_cleaned, candidates, all_variants, fuzzy_matches, matches, method,
          top_score, result, metrics, fuzz, emb, setorder, trace, undisturbed,
          runs, prev, threads>>

\* TransactionRows without the comparison of the id
TransactionRowsAll(id, transactions) == transactions

\* transactions[transactions["id"] == transaction_id]
TransactionRows(id, transactions) == SelectSeq(transactions, LAMBDA row : row.id = id)

NotFoundResponse == [error |-> "Transaction not found"]

\* EmptyResponse turned into an error
EmptyResponseAsError == [error |-> "No candidates"]

EmptyResponse == [users |-> <<>>, total_number_of_matches |-> 0]

\* the value of result while the function has not returned
Running == [running |-> TRUE]

\* the locals of a run before its first step
FreshRun ==
    /\ pc = "lookup"
    /\ description = ""
    /\ soft_cleaned = ""
    /\ hard_cleaned = ""
    /\ candidates = <<>>
    /\ all_variants = <<>>
    /\ fuzzy_matches = <<>>
    /\ matches = <<>>
    /\ method = "none"
    /\ top_score = 0
    /\ result = Running
    /\ trace = <<>>
    /\ undisturbed = TRUE

Init ==
    /\ FreshRun
    /\ \E request \in Requests :
          /\ transaction_id = request[1]
          /\ preprocessed_users = preprocess_users(request[2])
    /\ metrics = NewMetrics
    /\ fuzz = <<>>
    /\ emb = <<>>
    /\ setorder = <<>>
    /\ runs = 1
    /\ prev = <<>>
    /\ threads = <<>>

\* lines 43-54: find the transaction and read its description
Lookup ==
    /\ pc = "lookup"
    /\ LET transaction == TransactionRows(transaction_id, Transactions)
       IN  IF transaction = <<>>
           THEN /\ result' = NotFoundResponse
                /\ pc' = "done"
                /\ UNCHANGED description
           ELSE /\ description' = transaction[1].description
                /\ IF transaction[1].description = ""
                   THEN result' = EmptyResponse /\ pc' = "done"
                   ELSE pc' = "soft_clean" /\ UNCHANGED result
    /\ UNCHANGED <<transaction_id, preprocessed_users, soft_cleaned, hard_cleaned,
                   candidates, all_variants, fuzzy_matches, matches, method, top_score,
                   metrics, fuzz, emb, setorder, trace, undisturbed, runs, prev>>
    /\ UNCHANGED threads

\* SoftCleanExtract that goes to the hard clean whatever was extracted
SoftCleanExtractAlwaysRetry ==
    /\ pc = "soft_clean"
    /\ soft_cleaned' = soft_clean(description, MAX_DESCRIPTION_LENGTH)
    /\ candidates' = extract_candidates(soft_cleaned', MAX_CANDIDATES)
    /\ pc' = "hard_clean"
    /\ trace' = trace \o <<"soft_clean", "extract">>
    /\ UNCHANGED <<transaction_id, preprocessed_users, description, hard_cleaned,
                   all_variants, fuzzy_matches, matches, method, top_score, result,
                   metrics, fuzz, emb, setorder, undisturbed, runs, prev>>
    /\ UNCHANGED threads

\* lines 70-80: steps 1 and 2
SoftCleanExtract ==
    /\ pc = "soft_clean"
    /\ soft_cleaned' = soft_clean(description, MAX_DESCRIPTION_LENGTH)
    /\ candidates' = extract_candidates(soft_cleaned', MAX_CANDIDATES)
    /\ pc' = IF candidates' = <<>> THEN "hard_clean" ELSE "normalize"
    /\ trace' = trace \o <<"soft_clean", "extract">>
    /\ UNCHANGED <<transaction_id, preprocessed_users, description, hard_cleaned,
                   all_variants, fuzzy_matches, matches, method, top_score, result,
                   metrics, fuzz, emb, setorder, undisturbed, runs, prev>>
    /\ UNCHANGED threads

\* lines 82-110: step 3, the retry on the hard-cleaned text
HardCleanRetry ==
    /\ pc = "hard_clean"
    /\ hard_cleaned' = hard_clean(description, MAX_DESCRIPTION_LENGTH)
    /\ candidates' = extract_candidates(hard_cleaned', MAX_CANDIDATES)
    /\ trace' = trace \o <<"hard_clean", "extract">>
    /\ IF candidates' = <<>> /\ Len(Split(hard_cleaned')) < 2
       THEN /\ metrics' = log_request(metrics, "none", <<>>)
            /\ result' = EmptyResponse
            /\ pc' = "done"
       ELSE /\ pc' = "normalize"
            /\ UNCHANGED <<metrics, result>>
    /\ UNCHANGED <<transaction_id, preprocessed_users, description, soft_cleaned,
                   all_variants, fuzzy_matches, matches, method, top_score,
                   fuzz, emb, setorder, undisturbed, runs, prev>>
    /\ UNCHANGED threads

\* all_user_tokens of lines 61-64, as the set CandidateNormalizer keeps
AllUserTokens(users) == UNION {Range(users[i].tokens) : i \in 1..Len(users)}

\* the normalized text of each candidate, the argument of generate_variants
NormalizedTexts(cands) ==
    [i \in 1..Len(cands) |-> normalize_candidate(cands[i].text)]

RECURSIVE Flatten(_)
\* all_variants.extend(variants) over the candidates
Flatten(lists) == IF lists = <<>> THEN <<>> ELSE Head(lists) \o Flatten(Tail(lists))

\* NormalizeVariants with all_user_tokens bound to the token list of the
\* first user instead of a new list, so that extend() writes into the roster
NormalizeVariantsAliased ==
    /\ pc = "normalize"
    /\ LET texts == NormalizedTexts(candidates)
           tokens == AllUserTokens(preprocessed_users)
           new == Range(texts) \ DOMAIN setorder
       IN  \E chosen \in [new -> UNION {SetOrders(VariantSet(t, tokens)) : t \in new}] :
              /\ \A t \in new : chosen[t] \in SetOrders(VariantSet(t, tokens))
              /\ setorder' = setorder @@ chosen
              /\ all_variants' =
                    Flatten([i \in 1..Len(texts) |->
                               generate_variants(setorder'[texts[i]],
                                                 MAX_VARIANTS_PER_CANDIDATE)])
    /\ preprocessed_users' =
          [preprocessed_users EXCEPT ![1].tokens =
              @ \o Flatten([i \in 1..Len(preprocessed_users) |->
                               preprocessed_users[i].tokens])]
    /\ pc' = "fuzzy"
    /\ trace' = Append(trace, "normalize")
    /\ UNCHANGED <<transaction_id, description, soft_cleaned,
                   hard_cleaned, candidates, fuzzy_matches, matches, method, top_score,
                   result, metrics, fuzz, emb, undisturbed, runs, prev>>
    /\ UNCHANGED threads

\* lines 112-122: step 4.  The variant set of a text iterates in the order
\* in which this process has iterated it before; a set the process has not
\* built yet iterates in any order.
NormalizeVariants ==
    /\ pc = "normalize"
    /\ LET texts == NormalizedTexts(candidates)
           tokens == AllUserTokens(preprocessed_users)
           new == Range(texts) \ DOMAIN setorder
       IN  \E chosen \in [new -> UNION {SetOrders(VariantSet(t, tokens)) : t \in new}] :
              /\ \A t \in new : chosen[t] \in SetOrders(VariantSet(t, tokens))
              /\ setorder' = setorder @@ chosen
              /\ all_variants' =
                    Flatten([i \in 1..Len(texts) |->
                               generate_variants(setorder'[texts[i]],
                                                 MAX_VARIANTS_PER_CANDIDATE)])
    /\ pc' = "fuzzy"
    /\ trace' = Append(trace, "normalize")
    /\ UNCHANGED <<transaction_id, preprocessed_users, description, soft_cleaned,
                   hard_cleaned, candidates, fuzzy_matches, matches, method, top_score,
                   result, metrics, fuzz, emb, undisturbed, runs, prev>>
    /\ UNCHANGED threads

\* the pairs whose score rapidfuzz has to compute
FuzzNeeded(variants, users) ==
    {<<variants[i], users[j].name_strip_accents>> :
        i \in 1..Len(variants), j \in 1..Len(users)}

\* max([m['score'] for m in ms]) if ms else 0.0
TopScore(ms) ==
    IF ms = <<>> THEN 0
    ELSE CHOOSE x \in {ms[i].score : i \in 1..Len(ms)} :
            \A i \in 1..Len(ms) : ms[i].score <= x

\* NeedsEmbedding that tries the fallback on every request
NeedsEmbeddingAlways(fuzzy, top) == TRUE

\* line 137: whether the embedding fallback is tried
NeedsEmbedding(fuzzy, top) == fuzzy = <<>> \/ top < Points(FUZZY_ACCEPT)

\* lines 124-134: step 5
FuzzyMatch ==
    /\ pc = "fuzzy"
    /\ LET new == {p \in FuzzNeeded(all_variants, preprocessed_users) :
                     ~FuzzIsExact(p[1], p[2])} \ DOMAIN fuzz
       IN  \E scored \in [new -> FuzzSamples] : fuzz' = fuzz @@ scored
    /\ fuzzy_matches' = fuzzy_match(all_variants, preprocessed_users,
                                    Points(FUZZY_ACCEPT), description, fuzz')
    /\ method' = "fuzzy"
    /\ matches' = fuzzy_matches'
    /\ top_score' = TopScore(fuzzy_matches')
    /\ pc' = IF NeedsEmbedding(fuzzy_matches', top_score') THEN "embedding"
             ELSE "disambiguate"
    /\ trace' = Append(trace, "fuzzy")
    /\ UNCHANGED <<transaction_id, preprocessed_users, description, soft_cleaned,
                   hard_cleaned, candidates, all_variants, result, metrics, emb,
                   setorder, undisturbed, runs, prev>>
    /\ UNCHANGED threads

\* what the clock and the encoder can do during one embedding_match
EmbEnvs(users) ==
    {[timeout_before |-> FALSE, encode_fails |-> fails, scanned |-> k] :
        fails \in BOOLEAN, k \in 0..Len(users)}
    \cup {[timeout_before |-> TRUE, encode_fails |-> FALSE, scanned |-> 0]}

\* max([m['cosine_sim'] for m in ms])
TopCosine(ms) ==
    CHOOSE x \in {ms[i].cosine_sim : i \in 1..Len(ms)} :
        \A i \in 1..Len(ms) : ms[i].cosine_sim <= x

\* lines 146-152: whether the embedding matches replace the fuzzy ones
Adopted(embedding_matches) ==
    embedding_matches # <<>> /\ TopCosine(embedding_matches) >= EMB_ACCEPT

\* lines 136-157: step 6.  embedding_match catches what encode raises and
\* returns [], so the except clause of match_users is never entered.
EmbeddingFallback ==
    /\ pc = "embedding"
    /\ \E env \in EmbEnvs(preprocessed_users) :
         LET new == IF all_variants = <<>> THEN {}
                    ELSE {<<all_variants[1], preprocessed_users[j].name_strip_accents>> :
                             j \in 1..Len(preprocessed_users)} \ DOMAIN emb
         IN  \E cosines \in [new -> EmbSamples] :
                /\ emb' = emb @@ cosines
                /\ undisturbed' = (/\ undisturbed
                                   /\ ~env.timeout_before
                                   /\ ~env.encode_fails
                                   /\ env.scanned = Len(preprocessed_users))
                /\ LET embedding_matches ==
                           embedding_match(all_variants, preprocessed_users,
                                           EMB_ACCEPT, emb', env)
                   IN  IF Adopted(embedding_matches)
                       THEN /\ method' = "embedding"
                            /\ matches' = embedding_matches
                            /\ top_score' = TopScore(embedding_matches)
                       ELSE UNCHANGED <<method, matches, top_score>>
                /\ trace' = trace \o (IF env.encode_fails
                                      THEN <<"embedding", "embedding_error">>
                                      ELSE <<"embedding">>)
    /\ pc' = "disambiguate"
    /\ UNCHANGED <<transaction_id, preprocessed_users, description, soft_cleaned,
                   hard_cleaned, candidates, all_variants, fuzzy_matches, result,
                   metrics, fuzz, setorder, runs, prev>>
    /\ UNCHANGED threads

\* lines 159-181: step 7, or the empty answer when nothing matched
Disambiguate ==
    /\ pc = "disambiguate"
    /\ IF matches # <<>>
       THEN /\ matches' = disambiguate(matches, candidates, description)
            /\ pc' = "format"
            /\ trace' = Append(trace, "disambiguate")
            /\ UNCHANGED <<metrics, result>>
       ELSE /\ metrics' = log_request(metrics, method, <<>>)
            /\ result' = EmptyResponse
            /\ pc' = "done"
            /\ UNCHANGED <<matches, trace>>
    /\ UNCHANGED <<transaction_id, preprocessed_users, description, soft_cleaned,
                   hard_cleaned, candidates, all_variants, fuzzy_matches, method,
                   top_score, fuzz, emb, setorder, undisturbed, runs, prev>>
    /\ UNCHANGED threads

\* round(score, 2): the nearest hundredth of a point, a half to the even one
Round2(score) ==
    LET lower == (score \div 10) * 10
        rest == score % 10
    IN  IF rest < 5 THEN lower
        ELSE IF rest > 5 THEN lower + 10
        ELSE IF (lower \div 10) % 2 = 0 THEN lower ELSE lower + 10

\* lines 183-194: the users list of the response
FormatResults(ms, method_used) ==
    LET top_matches == SubSeq(ms, 1, Min(Len(ms), get_top_k))
    IN  [k \in 1..Len(top_matches) |->
           [id |-> top_matches[k].user_id, name |-> top_matches[k].user_name,
            match_metric |-> Round2(top_matches[k].score), method |-> method_used]]

\* lines 183-219: steps 8 and 9 and the return
FormatOutput ==
    /\ pc = "format"
    /\ LET results == FormatResults(matches, method)
       IN  /\ result' = [users |-> results, total_number_of_matches |-> Len(results)]
           /\ metrics' = log_request(metrics, method,
                                     [k \in 1..Len(results) |-> matches[k].score])
    /\ pc' = "done"
    /\ trace' = Append(trace, "format")
    /\ UNCHANGED <<transaction_id, preprocessed_users, description, soft_cleaned,
                   hard_cleaned, candidates, all_variants, fuzzy_matches, matches,
                   method, top_score, fuzz, emb, setorder, undisturbed, runs, prev>>
    /\ UNCHANGED threads

\* the locals of the next run before its first step
StartRun ==
    /\ pc' = "lookup"
    /\ description' = ""
    /\ soft_cleaned' = ""
    /\ hard_cleaned' = ""
    /\ candidates' = <<>>
    /\ all_variants' = <<>>
    /\ fuzzy_matches' = <<>>
    /\ matches' = <<>>
    /\ method' = "none"
    /\ top_score' = 0
    /\ result' = Running
    /\ trace' = <<>>
    /\ undisturbed' = TRUE

\* the caller sends the same request again to the same process
Repeat ==
    /\ pc = "done"
    /\ runs < MaxRuns
    /\ runs' = runs + 1
    /\ prev' = [result |-> result, undisturbed |-> undisturbed]
    /\ StartRun
    /\ UNCHANGED <<transaction_id, preprocessed_users, metrics, fuzz, emb, setorder>>
    /\ UNCHANGED threads

\* the service is restarted (a new hash seed, a new logger) and the caller
\* sends the same request again; the libraries compute the same functions
Restart ==
    /\ pc = "done"
    /\ runs < MaxRuns
    /\ runs' = runs + 1
    /\ prev' = [result |-> result, undisturbed |-> undisturbed]
    /\ StartRun
    /\ setorder' = <<>>
    /\ metrics' = NewMetrics
    /\ UNCHANGED <<transaction_id, preprocessed_users, fuzz, emb>>
    /\ UNCHANGED threads

Next ==
    \/ Lookup
    \/ SoftCleanExtract
    \/ HardCleanRetry
    \/ NormalizeVariants
    \/ FuzzyMatch
    \/ EmbeddingFallback
    \/ Disambiguate
    \/ FormatOutput
    \/ Repeat
    \/ Restart

Spec == Init /\ [][Next]_vars

(***************************************************************************)
(* extract_candidates on its own: the texts "from X for deel" for the      *)
(* names X of 2 to MaxNameTokens tokens, the names of 2 to 4 tokens        *)
(* without an anchor, and texts with several anchors                       *)
(***************************************************************************)
NameTokens == {"ana", "li", "mc"}

MaxNameTokens == 6

NameTexts ==
    {Join(name) : name \in UNION {[1..n -> NameTokens] : n \in 2..MaxNameTokens}}

ExtractInit ==
    /\ pc = "extract_input"
    /\ soft_cleaned \in {"from " \o name \o " for deel" : name \in NameTexts}
                          \cup {name \in NameTexts : Len(Split(name)) <= 4}
                          \cup {"Ana Li ana li", "ana 12 li", "12 34",
                                "from ana li, from mc ana li for deel",
                                "from Ana Li, from ana li for deel",
                                "ref: ana li mc, ref: li mc",
                                "from ana li, ref: mc li for deel",
                                "payment ana li for deel, mc li ana for deel"}
    /\ transaction_id = ""
    /\ preprocessed_users = <<>>
    /\ description = ""
    /\ hard_cleaned = ""
    /\ candidates = <<>>
    /\ all_variants = <<>>
    /\ fuzzy_matches = <<>>
    /\ matches = <<>>
    /\ method = "none"
    /\ top_score = 0
    /\ result = Running
    /\ metrics = NewMetrics
    /\ fuzz = <<>>
    /\ emb = <<>>
    /\ setorder = <<>>
    /\ trace = <<>>
    /\ undisturbed = TRUE
    /\ runs = 1
    /\ prev = <<>>
    /\ threads = <<>>

\* one call of extract_candidates
ExtractCandidates ==
    /\ pc = "extract_input"
    /\ candidates' = extract_candidates(soft_cleaned, MAX_CANDIDATES)
    /\ pc' = "extracted"
    /\ UNCHANGED <<transaction_id, preprocessed_users, description, soft_cleaned,
                   hard_cleaned, all_variants, fuzzy_matches, matches, method,
                   top_score, result, metrics, fuzz, emb, setorder, trace,
                   undisturbed, runs, prev>>
    /\ UNCHANGED threads

ExtractSpec == ExtractInit /\ [][ExtractCandidates]_vars

(***************************************************************************)
(* CandidateNormalizer on its own: one call of normalize_candidate, of     *)
(* normalize_candidate on its result, and of generate_variants, for a      *)
(* candidate text and a max_variants.  result holds the call and what it   *)
(* returned.                                                               *)
(***************************************************************************)
NormalizerTexts ==
    {"", "   ", "ana li", "Ana  LI ", "ana j li", "Émile Ñuöß", "straße",
     "mariaalvarez", "mariaalvarez 99x7", "jhon smith2", "ana1 li22",
     "a1 b2 c3 d4 e5 f6", "¤¦", "¤¦ li", "li ¤",
     "ana jr li", "ana a li", "ana j k li", "j k li"}

\* the user tokens the normalizer was built with
NormalizerUserTokens == {"maria", "alvarez", "li"}

NormalizerInit ==
    /\ pc = "normalizer_input"
    /\ result \in {[candidate |-> text, max_variants |-> n] :
                      text \in NormalizerTexts,
                      n \in {0, 1, 3, MAX_VARIANTS_PER_CANDIDATE}}
    /\ threads = <<>>
    /\ metrics = NewMetrics
    /\ transaction_id = ""
    /\ preprocessed_users = <<>>
    /\ description = ""
    /\ soft_cleaned = ""
    /\ hard_cleaned = ""
    /\ candidates = <<>>
    /\ all_variants = <<>>
    /\ fuzzy_matches = <<>>
    /\ matches = <<>>
    /\ method = "none"
    /\ top_score = 0
    /\ fuzz = <<>>
    /\ emb = <<>>
    /\ setorder = <<>>
    /\ trace = <<>>
    /\ undisturbed = TRUE
    /\ runs = 1
    /\ prev = <<>>

\* the three calls; the variant set iterates in any order
NormalizeCandidate ==
    /\ pc = "normalizer_input"
    /\ \E order \in SetOrders(VariantSet(result.candidate, NormalizerUserTokens)) :
          result' = [candidate |-> result.candidate,
                     max_variants |-> result.max_variants,
                     normalized |-> normalize_candidate(result.candidate),
                     renormalized |->
                         normalize_candidate(normalize_candidate(result.candidate)),
                     variant_set_size |-> Len(order),
                     variants |-> generate_variants(order, result.max_variants)]
    /\ pc' = "normalizer_done"
    /\ UNCHANGED <<transaction_id, preprocessed_users, description, soft_cleaned,
                   hard_cleaned, candidates, all_variants, fuzzy_matches, matches,
                   method, top_score, metrics, fuzz, emb, setorder, trace,
                   undisturbed, runs, prev, threads>>

NormalizerSpec == NormalizerInit /\ [][NormalizeCandidate]_vars

(***************************************************************************)
(* startup_event and the first embedding comparison of a request.  An      *)
(* embedding is kept by its dimension only.  result holds what the         *)
(* process starts with: the dimension of its encoder, the dimensions of    *)
(* the vectors the encoder returns for the two users of the table, and     *)
(* the cache file: there is none ("absent"), it cannot be unpickled or     *)
(* lacks a key ("corrupt"), or it holds users and a model_dim ("valid").   *)
(***************************************************************************)
StartupInit ==
    /\ pc = "startup"
    /\ LET dims == {2, 3}
           rosters == {<<[id |-> "u1", embedding |-> [dim |-> d1]],
                         [id |-> "u2", embedding |-> [dim |-> d2]]>> :
                          d1 \in dims, d2 \in dims}
       IN  result \in [model_dim : dims,
                       encoded : rosters,
                       cache : {[file |-> f, users |-> <<>>, model_dim |-> 0] :
                                   f \in {"absent", "corrupt"}}
                               \cup {[file |-> "valid", users |-> users,
                                      model_dim |-> d] :
                                        users \in rosters, d \in dims}]
    /\ preprocessed_users = <<>>
    /\ threads = <<>>
    /\ metrics = NewMetrics
    /\ transaction_id = ""
    /\ description = ""
    /\ soft_cleaned = ""
    /\ hard_cleaned = ""
    /\ candidates = <<>>
    /\ all_variants = <<>>
    /\ fuzzy_matches = <<>>
    /\ matches = <<>>
    /\ method = "none"
    /\ top_score = 0
    /\ fuzz = <<>>
    /\ emb = <<>>
    /\ setorder = <<>>
    /\ trace = <<>>
    /\ undisturbed = TRUE
    /\ runs = 1
    /\ prev = <<>>

\* preprocess_users as startup_event calls it: the users of a readable
\* cache are returned as they are; otherwise the users are encoded and the
\* assert on the dimensions ends the startup when one disagrees
StartupEvent ==
    /\ pc = "startup"
    /\ IF result.cache.file = "valid"
       THEN /\ preprocessed_users' = result.cache.users
            /\ pc' = "ready"
       ELSE IF \E k \in 1..Len(result.encoded) :
                  result.encoded[k].embedding.dim # result.model_dim
            THEN /\ pc' = "startup_failed"
                 /\ UNCHANGED preprocessed_users
            ELSE /\ preprocessed_users' = result.encoded
                 /\ pc' = "ready"
    /\ trace' = Append(trace, "startup")
    /\ UNCHANGED <<transaction_id, description, soft_cleaned, hard_cleaned,
                   candidates, all_variants, fuzzy_matches, matches, method,
                   top_score, result, metrics, fuzz, emb, setorder, undisturbed,
                   runs, prev, threads>>

\* the comparison loop of embedding_match in a request: np.dot of the
\* candidate's vector, which has the encoder's dimension, with a user's
\* vector of another dimension raises, and the except clause returns []
EmbeddingRequest ==
    /\ pc = "ready"
    /\ trace' = trace \o (IF \E k \in 1..Len(preprocessed_users) :
                               preprocessed_users[k].embedding.dim # result.model_dim
                          THEN <<"embedding", "embedding_error">>
                          ELSE <<"embedding">>)
    /\ pc' = "scored"
    /\ UNCHANGED <<transaction_id, preprocessed_users, description, soft_cleaned,
                   hard_cleaned, candidates, all_variants, fuzzy_matches, matches,
                   method, top_score, result, metrics, fuzz, emb, setorder,
                   undisturbed, runs, prev, threads>>

StartupSpec == StartupInit /\ [][StartupEvent \/ EmbeddingRequest]_vars

(***************************************************************************)
(* log_request called by MaxThreads requests at the same time on the one   *)
(* RequestLogger of the process (the endpoint is a plain def, which the    *)
(* server runs on a pool of threads).  metrics[c] += 1 is a read of the    *)
(* counter followed by a write of the value read plus one, with no lock:   *)
(* another thread may run between the two.  A thread holds                 *)
(*   todo       the counters it still has to increment                     *)
(*   reg        the value it has read, -1 before the read                  *)
(*   performed  the counters it has incremented                            *)
(***************************************************************************)
MaxThreads == 2

\* the counters log_request increments for a method and a list of scores
CountersOf(method_used, scores) ==
    (IF method_used = "fuzzy" THEN <<"fuzzy_matches">>
     ELSE IF method_used = "embedding" THEN <<"embedding_matches">>
     ELSE <<>>)
    \o (IF scores = <<>> THEN <<"no_matches">> ELSE <<>>)

\* the (method, scores) with which match_users calls log_request
LogCalls ==
    {<<m, sc>> : m \in {"fuzzy", "embedding"}, sc \in {<<>>, <<100000>>}}

LoggerInit ==
    /\ pc = "logging"
    /\ threads \in [1..MaxThreads ->
                      {[todo |-> CountersOf(call[1], call[2]), reg |-> -1,
                        performed |-> <<>>] : call \in LogCalls}]
    /\ metrics = NewMetrics
    /\ transaction_id = ""
    /\ preprocessed_users = <<>>
    /\ description = ""
    /\ soft_cleaned = ""
    /\ hard_cleaned = ""
    /\ candidates = <<>>
    /\ all_variants = <<>>
    /\ fuzzy_matches = <<>>
    /\ matches = <<>>
    /\ method = "none"
    /\ top_score = 0
    /\ result = Running
    /\ fuzz = <<>>
    /\ emb = <<>>
    /\ setorder = <<>>
    /\ trace = <<>>
    /\ undisturbed = TRUE
    /\ runs = 1
    /\ prev = <<>>

\* the variables the calls of log_request leave alone
request_locals ==
    <<pc, transaction_id, preprocessed_users, description, soft_cleaned,
      hard_cleaned, candidates, all_variants, fuzzy_matches, matches, method,
      top_score, result, fuzz, emb, setorder, trace, undisturbed, runs, prev>>

\* self.metrics[c]: the read half of self.metrics[c] += 1
ReadCounter ==
    \E t \in DOMAIN threads :
        /\ threads[t].todo # <<>>
        /\ threads[t].reg = -1
        /\ threads' = [threads EXCEPT ![t].reg = metrics[Head(threads[t].todo)]]
        /\ UNCHANGED metrics
        /\ UNCHANGED request_locals

\* self.metrics[c] = value read + 1: the write half
WriteCounter ==
    \E t \in DOMAIN threads :
        /\ threads[t].todo # <<>>
        /\ threads[t].reg # -1
        /\ metrics' = [metrics EXCEPT ![Head(threads[t].todo)] = threads[t].reg + 1]
        /\ threads' = [threads EXCEPT ![t].todo = Tail(@), ![t].reg = -1,
                                      ![t].performed = Append(@, Head(threads[t].todo))]
        /\ UNCHANGED request_locals

LoggerSpec == LoggerInit /\ [][ReadCounter \/ WriteCounter]_vars

(***************************************************************************)
(* Properties                                                              *)
(***************************************************************************)

\* C1: every match_metric of a returned users list lies in [0, 100],
\* whichever matcher produced the match and whatever bonuses and penalties
\* it collected.
C1_MetricInRange ==
    (pc = "done" /\ "users" \in DOMAIN result) =>
        \A i \in 1..Len(result.users) :
            /\ result.users[i].match_metric >= 0
            /\ result.users[i].match_metric <= 100000

\* a returned match whose base score of 100 collected the anchor bonus
C1_BonusOverflowReturned ==
    /\ pc = "done"
    /\ "users" \in DOMAIN result
    /\ \E i \in 1..Len(matches) :
          /\ i <= Len(result.users)
          /\ matches[i].base_score = 100000
          /\ matches[i].anchor_bonus_applied
          /\ result.users[i].match_metric = 100000

\* C2: an id that is not in the transactions table is answered with exactly
\* {error: "Transaction not found"} before any stage of the pipeline runs,
\* and a known id is never answered with an error.
C2_NotFoundIffUnknownId ==
    pc = "done" =>
        LET known == \E i \in 1..Len(Transactions) : Transactions[i].id = transaction_id
        IN  /\ ~known => /\ result = [error |-> "Transaction not found"]
                         /\ trace = <<>>
                         /\ soft_cleaned = "" /\ candidates = <<>> /\ matches = <<>>
            /\ known => DOMAIN result = {"users", "total_number_of_matches"}

\* the unknown id has been answered
C2_UnknownIdAnswered ==
    /\ pc = "done"
    /\ transaction_id = "t404"
    /\ "error" \in DOMAIN result

\* C3: a known transaction whose description is empty, or that yields no
\* candidate from the soft-cleaned and from the hard-cleaned text, is
\* answered with {users: [], total_number_of_matches: 0}, whether the
\* hard-cleaned text has fewer than 2 tokens or not; until then the run
\* always has a next step.
C3_NoCandidatesEmptyResult ==
    LET known == \E i \in 1..Len(Transactions) : Transactions[i].id = transaction_id
        retried == \E k \in 1..Len(trace) : trace[k] = "hard_clean"
        nothing == retried /\ candidates = <<>>
    IN  /\ (pc = "done" /\ known /\ (description = "" \/ nothing)) =>
               result = [users |-> <<>>, total_number_of_matches |-> 0]
        /\ (pc # "done" /\ nothing) => ENABLED Next

\* the run on "12345 ### 999" went on through the fuzzy matcher with no
\* candidate and has returned
C3_WentOnWithoutCandidates ==
    /\ pc = "done"
    /\ description = "12345 ### 999"
    /\ candidates = <<>>
    /\ \E k \in 1..Len(trace) : trace[k] = "fuzzy"
    /\ Len(Split(hard_cleaned)) >= 2
    /\ "users" \in DOMAIN result

\* C4: for "Transfer from Emma Brown for Deel" and a roster with a user
\* named "Emma Brown", the first returned user is named "Emma Brown", with
\* method "fuzzy" and a match_metric of at least 95.
C4_ScenarioA ==
    (/\ pc = "done"
     /\ description = "Transfer from Emma Brown for Deel"
     /\ \E j \in 1..Len(preprocessed_users) : preprocessed_users[j].name_raw = "Emma Brown")
    => /\ "users" \in DOMAIN result
       /\ Len(result.users) >= 1
       /\ result.users[1].name = "Emma Brown"
       /\ result.users[1].method = "fuzzy"
       /\ result.users[1].match_metric >= 95000

\* C5: on "from X for deel", X a name of 2 to 6 lower-case alphabetic
\* tokens none of which is a boilerplate word, the first candidate has the
\* text X, the anchor "from" and the priority 3.
C5_FromCandidateFirst ==
    LET name == SubSeq(soft_cleaned, 6, Len(soft_cleaned) - 9)
        tokens == Split(name)
    IN  (/\ pc = "extracted"
         /\ soft_cleaned = "from " \o name \o " for deel"
         /\ Len(tokens) >= 2 /\ Len(tokens) <= 6
         /\ \A k \in 1..Len(tokens) :
               /\ tokens[k] \notin BOILERPLATE_WORDS
               /\ \A c \in 1..Len(tokens[k]) : IsLower(Ch(tokens[k], c)))
        => /\ Len(candidates) >= 1
           /\ candidates[1].text = name
           /\ candidates[1].anchor = "from"
           /\ candidates[1].priority = 3

\* the pass before "for deel" has produced a candidate as well
C5_ForDeelCandidateToo ==
    /\ pc = "extracted"
    /\ Len(candidates) >= 2
    /\ candidates[1].anchor = "from"
    /\ \E k \in 2..Len(candidates) : candidates[k].anchor = "for_deel"

\* C6: two runs on the same request that no timeout and no encoder failure
\* disturbed return the same response, whatever the iteration order of the
\* variant sets.
C6_Deterministic ==
    (pc = "done" /\ prev # <<>> /\ undisturbed /\ prev.undisturbed)
        => result = prev.result

\* C7: every match_metric of a non-empty returned users list is at least
\* FUZZY_ACCEPT (70).
C7_AtLeastFuzzyAccept ==
    (pc = "done" /\ "users" \in DOMAIN result) =>
        \A i \in 1..Len(result.users) : result.users[i].match_metric >= 70000

\* C8: over the whole pipeline a match is charged the cc penalty once: what
\* was taken off its unclamped score for following "cc" is CC_PENALTY
\* (8 points) or nothing.
C8_CcChargedOnce ==
    (pc \in {"format", "done"}) =>
        \A i \in 1..Len(matches) : matches[i].cc_charged \in {0, -8000}

\* C10: the embedding matcher is invoked iff the fuzzy matches are empty or
\* their best score is below FUZZY_ACCEPT; its matches replace the fuzzy
\* ones only when their best cosine similarity is at least EMB_ACCEPT;
\* otherwise the fuzzy matches are disambiguated and returned as "fuzzy".
C10_EmbeddingDecision ==
    LET invoked == \E k \in 1..Len(trace) : trace[k] = "embedding"
        weak == fuzzy_matches = <<>>
                \/ \A i \in 1..Len(fuzzy_matches) : fuzzy_matches[i].score < 70000
    IN  /\ pc \in {"disambiguate", "format", "done"} /\ trace # <<>>
              /\ (\E k \in 1..Len(trace) : trace[k] = "fuzzy")
           => /\ invoked <=> weak
              /\ method \in {"fuzzy", "embedding"}
              /\ method = "embedding" => invoked
        /\ pc = "disambiguate" =>
              IF method = "embedding"
              THEN /\ matches # <<>>
                   /\ \E i \in 1..Len(matches) : matches[i].cosine_sim >= 75000
                   /\ \A i \in 1..Len(matches) :
                         matches[i].candidate = all_variants[1]
              ELSE matches = fuzzy_matches
        /\ (pc \in {"format", "done"} /\ method = "fuzzy" /\ matches # <<>>) =>
              matches = disambiguate(fuzzy_matches, candidates, description)
        /\ (pc = "done" /\ "users" \in DOMAIN result) =>
              \A i \in 1..Len(result.users) : result.users[i].method = method

\* the embedding matches were adopted and returned
C10_EmbeddingAdopted ==
    /\ pc = "done"
    /\ method = "embedding"
    /\ "users" \in DOMAIN result
    /\ Len(result.users) >= 1
    /\ fuzzy_matches = <<>>

\* C11: an exception of the embedding backend never reaches the caller:
\* embedding_match is called at most once in a run, and a run in which it
\* raised goes on and returns what the fuzzy matches alone give, the empty
\* users list if there are none.
C11_EmbeddingFailureRecovered ==
    LET failed == \E k \in 1..Len(trace) : trace[k] = "embedding_error"
        calls == Cardinality({k \in 1..Len(trace) : trace[k] = "embedding"})
    IN  /\ calls <= 1
        /\ (failed /\ pc = "disambiguate") =>
               method = "fuzzy" /\ matches = fuzzy_matches
        /\ (failed /\ pc # "done") => ENABLED Next
        /\ (failed /\ pc = "done") =>
               /\ method = "fuzzy"
               /\ DOMAIN result = {"users", "total_number_of_matches"}
               /\ IF fuzzy_matches = <<>>
                  THEN result = [users |-> <<>>, total_number_of_matches |-> 0]
                  ELSE result.users =
                          FormatResults(disambiguate(fuzzy_matches, candidates,
                                                     description), "fuzzy")

\* a run whose embedding call raised after a user had been compared has
\* returned
C11_FailedRunReturned ==
    /\ pc = "done"
    /\ \E k \in 1..Len(trace) : trace[k] = "embedding_error"
    /\ \E j \in 1..Len(preprocessed_users) :
          <<all_variants[1], preprocessed_users[j].name_strip_accents>> \in DOMAIN emb
          /\ emb[<<all_variants[1], preprocessed_users[j].name_strip_accents>>] >= 75000
    /\ result = [users |-> <<>>, total_number_of_matches |-> 0]

\* C12: when the concurrent requests have all finished, each counter of the
\* shared logger equals the number of increments the requests performed on
\* it: no increment is lost.
C12_NoLostIncrement ==
    (threads # <<>> /\ \A t \in DOMAIN threads : threads[t].todo = <<>>) =>
        \A c \in DOMAIN metrics :
            metrics[c] =
                Cardinality({<<t, k>> \in (DOMAIN threads) \X (1..2) :
                                k <= Len(threads[t].performed)
                                /\ threads[t].performed[k] = c})

\* C13: no step of a request, in any sequence of requests, changes the
\* roster: the list and every field of every record (id, names, tokens,
\* initials, embedding) stay as preprocess_users built them.
C13_RosterNeverMutated == [][preprocessed_users' = preprocessed_users]_vars

\* a second request on the same roster has gone through the embedding
\* matcher and returned, and the records are as preprocess_users builds them
C13_RosterIntactAfterRuns ==
    /\ pc = "done"
    /\ runs = 2
    /\ method = "embedding"
    /\ preprocessed_users # <<>>
    /\ \E request \in Requests : preprocessed_users = preprocess_users(request[2])

\* C14: the users list has at most 5 entries, they are the first entries of
\* the disambiguated order (entry k is made from match k, none is skipped),
\* and total_number_of_matches is the length of the users list.
C14_TopKPrefix ==
    (pc = "done" /\ "users" \in DOMAIN result) =>
        /\ Len(result.users) <= 5
        /\ Len(result.users) = (IF Len(matches) <= 5 THEN Len(matches) ELSE 5)
        /\ result.total_number_of_matches = Len(result.users)
        /\ \A k \in 1..Len(result.users) :
              /\ result.users[k].id = matches[k].user_id
              /\ result.users[k].name = matches[k].user_name
              /\ result.users[k].match_metric - matches[k].score \in -5..5

\* more than five matches were ranked and five were returned
C14_Truncated ==
    /\ pc = "done"
    /\ "users" \in DOMAIN result
    /\ Len(matches) > 5
    /\ Len(result.users) = 5

\* C15: generate_variants returns at most max_variants entries, whatever
\* the text, also when the variant set is larger than max_variants.
C15_AtMostMaxVariants ==
    pc = "normalizer_done" => Len(result.variants) <= result.max_variants

\* six tokens with trailing digits gave seven variants, of which the three
\* asked for were returned
C15_LargeSetCut ==
    /\ pc = "normalizer_done"
    /\ result.candidate = "a1 b2 c3 d4 e5 f6"
    /\ result.variant_set_size = 7
    /\ result.max_variants = 3
    /\ Len(result.variants) = 3

\* C16: normalize_candidate(normalize_candidate(x)) = normalize_candidate(x)
\* for every text x, with diacritics or Chinese characters or neither.
C16_NormalizeIdempotent ==
    pc = "normalizer_done" => result.renormalized = result.normalized

\* C17: the steps of a request follow the state machine.  The hard clean
\* and the second extraction run only after a first extraction that found
\* nothing; a request that reached the soft clean returns before the
\* normalisation exactly when the second extraction found nothing either
\* and the hard-cleaned text has fewer than 2 tokens, and its result is
\* then empty; otherwise normalisation, fuzzy match, the optional embedding
\* match, disambiguation and formatting run in this order, each at most
\* once.
C17_StateMachineOrder ==
    LET has(step) == \E k \in 1..Len(trace) : trace[k] = step
        cleans == {<<"soft_clean", "extract">>,
                   <<"soft_clean", "extract", "hard_clean", "extract">>}
        embeds == {<<>>, <<"embedding">>, <<"embedding", "embedding_error">>}
        full == {c \o <<"normalize", "fuzzy">> \o e \o <<"disambiguate", "format">> :
                    c \in cleans, e \in embeds}
            \cup {c \o <<"normalize", "fuzzy">> \o e : c \in cleans, e \in embeds}
        retried_empty == /\ has("hard_clean")
                         /\ candidates = <<>>
                         /\ Len(Split(hard_cleaned)) < 2
    IN  /\ \E f \in full : Len(trace) <= Len(f) /\ SubSeq(f, 1, Len(trace)) = trace
        /\ has("hard_clean") =>
               extract_candidates(soft_cleaned, MAX_CANDIDATES) = <<>>
        /\ (pc = "done" /\ trace # <<>>) =>
               /\ ~has("normalize") <=> retried_empty
               /\ retried_empty =>
                      result = [users |-> <<>>, total_number_of_matches |-> 0]
               /\ ~retried_empty =>
                      /\ has("fuzzy")
                      /\ \E f \in full : f = trace
                      /\ matches # <<>> => has("disambiguate") /\ has("format")

\* a request whose first extraction found nothing went through the hard
\* clean, the normalisation, the fuzzy and the embedding match and
\* returned
C17_RetriedAndWentOn ==
    /\ pc = "done"
    /\ trace = <<"soft_clean", "extract", "hard_clean", "extract",
                 "normalize", "fuzzy", "embedding">>

C19_BonusForEveryVariant ==
    pc = "format" =>
        LET texts == NormalizedTexts(candidates)
            primary == _get_primary_anchor(candidates)
            sources(m) ==
                {i \in 1..Len(candidates) :
                    m.candidate \in Range(generate_variants(setorder[texts[i]],
                                                            MAX_VARIANTS_PER_CANDIDATE))}
        IN  \A k \in 1..Len(matches) :
               LET m == matches[k]
               IN  /\ (/\ sources(m) # {}
                       /\ \A i \in sources(m) : candidates[i].anchor = primary)
                      => m.anchor_bonus_applied
                   /\ (\A i \in sources(m) : candidates[i].anchor # primary)
                      => ~m.anchor_bonus_applied

\* C20: the compound-name step, applied to the matches that carry their
\* anchor bonus and cc penalty, raises by exactly 2 points the score of one
\* match with the most tokens of each user whose richest match has at least
\* 3 tokens and who has a 2-token match of score >= FUZZY_ACCEPT, however
\* many such 2-token matches there are, and changes nothing else.
C20_SingleCompoundBoost ==
    (pc = "disambiguate" /\ matches # <<>>) =>
        LET adjusted == [i \in 1..Len(matches) |->
                           AnchorAndCc(matches[i], candidates, description)] \o <<>>
            preferred == _prefer_compound_names(adjusted) \o <<>>
            of(u) == {i \in 1..Len(adjusted) : adjusted[i].user_id = u}
            richest(u) == {i \in of(u) :
                             \A j \in of(u) : TokenCount(adjusted[j]) <= TokenCount(adjusted[i])}
            competing(u) == {j \in of(u) : /\ TokenCount(adjusted[j]) = 2
                                           /\ adjusted[j].score >= Points(FUZZY_ACCEPT)}
            boosted(u) == /\ \E i \in richest(u) : TokenCount(adjusted[i]) >= 3
                          /\ competing(u) # {}
        IN  \A u \in {adjusted[i].user_id : i \in 1..Len(adjusted)} :
               IF boosted(u)
               THEN \E i \in richest(u) :
                       /\ preferred[i] = [adjusted[i] EXCEPT !.score = @ + Points(2)]
                       /\ \A j \in of(u) \ {i} : preferred[j] = adjusted[j]
               ELSE \A j \in of(u) : preferred[j] = adjusted[j]

\* C21: the candidates extract_candidates returns are ordered by priority
\* descending and, for equal priority, by text length descending; no two
\* have the same text up to case, and there are at most MAX_CANDIDATES.
C21_LongerTextFirst ==
    /\ Len(candidates) <= MAX_CANDIDATES
    /\ \A i, j \in 1..Len(candidates) :
          i < j =>
             /\ Lower(candidates[i].text) # Lower(candidates[j].text)
             /\ \/ candidates[i].priority > candidates[j].priority
                \/ /\ candidates[i].priority = candidates[j].priority
                   /\ Len(candidates[i].text) >= Len(candidates[j].text)

\* C22: a list extract_candidates returns never holds a fallback candidate
\* together with an anchored one, holds fallback candidates only when the
\* passes for "from", "ref:" and "for deel" find nothing in the text, and
\* every candidate has the priority of its anchor (from 3, ref 2,
\* for_deel 1, fallback 0).
C22_FallbackOnlyAlone ==
    pc = "extracted" =>
        /\ \A i, j \in 1..Len(candidates) :
              ~(candidates[i].anchor = "fallback" /\ candidates[j].anchor # "fallback")
        /\ (\E i \in 1..Len(candidates) : candidates[i].anchor = "fallback")
              => /\ _extract_after_from(soft_cleaned) = <<>>
                 /\ _extract_after_ref(soft_cleaned) = <<>>
                 /\ _extract_before_for_deel(soft_cleaned) = <<>>
        /\ \A i \in 1..Len(candidates) :
              /\ candidates[i].anchor \in {"from", "ref", "for_deel", "fallback"}
              /\ candidates[i].priority =
                    (CASE candidates[i].anchor = "from" -> 3
                       [] candidates[i].anchor = "ref" -> 2
                       [] candidates[i].anchor = "for_deel" -> 1
                       [] OTHER -> 0)

\* fewer than MAX_CANDIDATES anchored candidates returned from a text
\* that has windows for the fallback pass
C22_AnchoredWithoutFallback ==
    /\ pc = "extracted"
    /\ Len(candidates) \in 1..(MAX_CANDIDATES - 1)
    /\ \A i \in 1..Len(candidates) : candidates[i].anchor # "fallback"
    /\ \E i, j \in 1..Len(candidates) : candidates[i].anchor # candidates[j].anchor
    /\ _fallback_windows(soft_cleaned) # <<>>

\* C23: for a normalized text of more than two tokens, the variants of
\* generate_variants (when none is cut by max_variants) include the text
\* without its single-letter tokens and its particle tokens j, k, jr, sr,
\* provided at least 2 tokens remain.
C23_ParticlesRemoved ==
    (pc = "normalizer_done" /\ result.variant_set_size <= result.max_variants) =>
        LET normalized == _split_glued_words(normalize_misspelling(result.normalized),
                                             NormalizerUserTokens)
            tokens == Split(normalized)
            remaining == SelectSeq(tokens,
                            LAMBDA t : Len(t) > 1 /\ t \notin {"j", "k", "jr", "sr"})
        IN  (Len(tokens) > 2 /\ Len(remaining) >= 2)
               => Join(remaining) \in Range(result.variants)

\* C24: a fuzzy match carries the cc penalty if and only if the description
\* has a standalone "cc" and the variant's text occurs in it less than 100
\* characters after that "cc"; "cc" inside a longer word, or the variant
\* before the "cc", gives no penalty.
C24_CcPenaltyOnlyAfterCcToken ==
    \A i \in 1..Len(fuzzy_matches) :
        LET description_lower == Lower(description)
            variant == Lower(fuzzy_matches[i].candidate)
            after_cc == \E cc_pos \in CcPositions(description_lower) :
                           \E p \in (cc_pos + 1)..(cc_pos + 99) :
                              StartsAt(description_lower, p + 1, variant)
        IN  fuzzy_matches[i].cc_charged = IF after_cc THEN Points(CC_PENALTY) ELSE 0

\* C25: no token of the text hard_clean returns is a word of the
\* boilerplate list, and its tokens are the tokens of the soft-cleaned
\* description that are not in the list, in their order.
C25_NoBoilerplateToken ==
    (\E k \in 1..Len(trace) : trace[k] = "hard_clean") =>
        LET words == {"from", "for", "deel", "payment", "transfer", "received",
                      "request", "credit", "debit", "to", "cntr", "wise", "test"}
            tokens == Split(hard_cleaned)
            soft == Split(soft_clean(description, MAX_DESCRIPTION_LENGTH))
        IN  /\ \A k \in 1..Len(tokens) : tokens[k] \notin words
            /\ tokens = SelectSeq(soft, LAMBDA t : t \notin words)

\* C26: once the embedding backend has thrown in a request, the errors
\* counter of the logger has been incremented for it.
C26_ErrorCounted ==
    (\E k \in 1..Len(trace) : trace[k] = "embedding_error") => metrics.errors >= 1

\* C27: whenever the clock runs out during embedding_match (before the
\* encoder call or before any roster record), the call returns a list: it
\* is empty when the time was up before the encoder call, it holds no
\* record that comes after the point where the time was up, it is sorted
\* by score descending, and each of its matches has a cosine similarity
\* >= EMB_ACCEPT and is a match of the run that is never out of time.
C27_PartialOnTimeout ==
    (/\ pc = "disambiguate"
     /\ trace # <<>>
     /\ trace[Len(trace)] \in {"embedding", "embedding_error"}) =>
        LET users == preprocessed_users
            full == embedding_match(all_variants, users, EMB_ACCEPT, emb,
                        [timeout_before |-> FALSE, encode_fails |-> FALSE,
                         scanned |-> Len(users)])
        IN  \A env \in {e \in EmbEnvs(users) : ~e.encode_fails} :
               LET partial == embedding_match(all_variants, users, EMB_ACCEPT, emb, env)
               IN  /\ env.timeout_before => partial = <<>>
                   /\ \A i \in 1..Len(partial) :
                         /\ partial[i].cosine_sim >= EMB_ACCEPT
                         /\ \E k \in 1..env.scanned : users[k].id = partial[i].user_id
                         /\ \E j \in 1..Len(full) : full[j] = partial[i]
                         /\ \A j \in 1..(i - 1) : partial[j].score >= partial[i].score

\* time was up after the first of two roster records: the list holds the
\* first record's match and not the second's
C27_CutAfterFirstRecord ==
    /\ pc = "disambiguate"
    /\ trace # <<>>
    /\ trace[Len(trace)] = "embedding"
    /\ Len(preprocessed_users) = 2
    /\ LET cut == embedding_match(all_variants, preprocessed_users, EMB_ACCEPT, emb,
                      [timeout_before |-> FALSE, encode_fails |-> FALSE, scanned |-> 1])
           full == embedding_match(all_variants, preprocessed_users, EMB_ACCEPT, emb,
                      [timeout_before |-> FALSE, encode_fails |-> FALSE, scanned |-> 2])
       IN  Len(cut) = 1 /\ Len(full) = 2 /\ matches = cut

\* C28: a roster with a record whose embedding dimension differs from the
\* dimension of the model, or from that of another record, never gets past
\* the startup, whether it was computed or read from the cache, and no
\* request meets a dimension mismatch while scoring.
C28_MismatchRejectedAtStartup ==
    /\ pc \in {"ready", "scored"} =>
          \A k \in 1..Len(preprocessed_users) :
             /\ preprocessed_users[k].embedding.dim = result.model_dim
             /\ preprocessed_users[k].embedding.dim = preprocessed_users[1].embedding.dim
    /\ pc = "scored" => \A k \in 1..Len(trace) : trace[k] # "embedding_error"

\* C29: no user id occurs twice in the users list match_users returns.
C29_NoDuplicateUser ==
    (pc = "done" /\ "users" \in DOMAIN result) =>
        \A i, j \in 1..Len(result.users) :
            i # j => result.users[i].id # result.users[j].id

\* C30: the step that completes a request for a known transaction counts
\* it once: with an empty users list no_matches goes up by one and no other
\* counter changes; with a non-empty users list the counter of the
\* response's method (fuzzy_matches or embedding_matches) goes up by one
\* and no other counter changes; no earlier step of the request changes a
\* counter.
C30_CountedOnce ==
    [][pc # "done" =>
          IF pc' = "done" /\ "users" \in DOMAIN result'
          THEN IF result'.users = <<>>
               THEN metrics' = [metrics EXCEPT !.no_matches = @ + 1]
               ELSE /\ result'.users[1].method \in {"fuzzy", "embedding"}
                    /\ metrics' =
                          IF result'.users[1].method = "fuzzy"
                          THEN [metrics EXCEPT !.fuzzy_matches = @ + 1]
                          ELSE [metrics EXCEPT !.embedding_matches = @ + 1]
          ELSE metrics' = metrics]_vars

=============================================================================
